---- MODULE Spec2Model ----
(***************************************************************************)
(* Model of src/src/App.js: the inventory / recipe / sales-order handlers  *)
(* of the MRP application, run by several browser tabs against one shared  *)
(* Firestore database.                                                     *)
(*                                                                         *)
(* Numbers.  JavaScript numbers are modelled as exact rationals            *)
(* [n |-> numerator, d |-> denominator] in lowest terms with d > 0, so     *)
(* that a stock such as (150 - 100) / 150 is represented exactly; the      *)
(* rounding of IEEE doubles (1 - 1/3 printed as 0.6666666666666667) is not *)
(* modelled.  The value null returned by convertUnits is the record with   *)
(* n = 0 and d = 0, NaN the record with n = 1 and d = 0.                   *)
(*                                                                         *)
(* Calls.  A tab has one handler call in flight at a time.  A second click *)
(* in a tab while the first call awaits its write runs with the state the  *)
(* first one read; in the model that call is made by the other tab, which  *)
(* can hold the same snapshot.  The pages are mounted only while a user is *)
(* signed in (App.renderPage), so db and userId are set in every handler.  *)
(***************************************************************************)
EXTENDS Integers, Sequences, FiniteSets, TLC

(***************************************************************************)
(* Bounds of the model.                                                    *)
(***************************************************************************)
MaxItems == 4       \* document ids available in the inventory collection
MaxOps   == 2       \* user operations in one behaviour: a click on a button, a
                    \* page change, a row loaded into its form and saved

\* browser tabs signed in as the same user
Clients == {"tabA", "tabB"}
ItemIds == 1..MaxItems

(***************************************************************************)
(* Arithmetic on JavaScript numbers.                                       *)
(***************************************************************************)
Abs(x) == IF x < 0 THEN -x ELSE x

RECURSIVE GCD(_, _)
GCD(a, b) == IF b = 0 THEN a ELSE GCD(b, a % b)

Rat(n, d) ==
    LET g == GCD(Abs(n), Abs(d))
        s == IF d < 0 THEN -1 ELSE 1
    IN  [n |-> (s * n) \div g, d |-> (s * d) \div g]

Num(k) == [n |-> k, d |-> 1]
Null == [n |-> 0, d |-> 0]
NaN  == [n |-> 1, d |-> 0]
isNaN(x) == x = NaN

\* an operand that is not a number (NaN, or an object coerced to a number)
\* makes the product or the quotient NaN
Mul(a, b) == IF isNaN(a) \/ isNaN(b) THEN NaN ELSE Rat(a.n * b.n, a.d * b.d)
Div(a, b) == IF isNaN(a) \/ isNaN(b) THEN NaN ELSE Rat(a.n * b.d, a.d * b.n)
Sub(a, b) == IF isNaN(a) \/ isNaN(b) THEN NaN ELSE Rat(a.n * b.d - b.n * a.d, a.d * b.d)
Add(a, b) == IF isNaN(a) \/ isNaN(b) THEN NaN ELSE Rat(a.n * b.d + b.n * a.d, a.d * b.d)
\* a comparison with NaN on either side is false
Less(a, b) == ~isNaN(a) /\ ~isNaN(b) /\ a.n * b.d < b.n * a.d
LessEq(a, b) == ~isNaN(a) /\ ~isNaN(b) /\ a.n * b.d <= b.n * a.d

\* The text of a number input is either what the user typed or the digits
\* that toString produced for a number; parsing those digits gives the number
\* back, parsing typed text is tabulated for the texts the model types.
Typed(s) == [text |-> s, digits |-> Null]

\* Number.prototype.toString
toString(x) == [text |-> "", digits |-> x]

\* parseInt: the integer part of the number the text starts with
parseInt(s) ==
    IF s.digits # Null THEN
        IF isNaN(s.digits) THEN NaN
        ELSE IF s.digits.n < 0 THEN Num(-((-s.digits.n) \div s.digits.d))
        ELSE Num(s.digits.n \div s.digits.d)
    ELSE CASE s.text = "0"   -> Num(0)
           [] s.text = "1"   -> Num(1)
           [] s.text = "2"   -> Num(2)
           [] s.text = "1.5" -> Num(1)
           [] s.text = "-1"  -> Num(-1)
           [] OTHER          -> NaN

\* parseFloat
parseFloat(s) ==
    IF s.digits # Null THEN s.digits
    ELSE CASE s.text = "0"   -> Num(0)
           [] s.text = "1"   -> Num(1)
           [] s.text = "3"   -> Num(3)
           [] s.text = "50"  -> Num(50)
           [] s.text = "150" -> Num(150)
           [] s.text = "-1"  -> Num(-1)
           [] OTHER          -> NaN

(***************************************************************************)
(* String.prototype.toLowerCase on the strings the model uses.             *)
(***************************************************************************)
toLowerCase(s) ==
    CASE s = "Flour" -> "flour"
      [] s = "FLOUR" -> "flour"
      [] s = "Water" -> "water"
      [] s = "Sugar" -> "sugar"
      [] s = "Bread" -> "bread"
      [] s = "BREAD" -> "bread"
      [] s = "Cake"  -> "cake"
      [] s = "Mix"   -> "mix"
      [] s = "Pie"   -> "pie"
      [] s = "G"     -> "g"
      [] s = "KG"    -> "kg"
      [] s = "Lt"    -> "lt"
      [] s = "OZ"    -> "oz"
      [] OTHER       -> s

(***************************************************************************)
(* convertUnits (App.js 24-67).                                            *)
(***************************************************************************)
MassFactors   == [g |-> 1, kg |-> 1000]
VolumeFactors == [ml |-> 1, lt |-> 1000, cc |-> 1]
CountFactors  == [unidad |-> 1]

conversionFactors(category) ==
    CASE category = "mass"   -> MassFactors
      [] category = "volume" -> VolumeFactors
      [] category = "count"  -> CountFactors

\* the lower-case keys every object literal inherits from Object.prototype: a
\* lookup such as conversionFactors.mass['constructor'] finds a function
ObjectPrototypeKeys == {"constructor", "__proto__"}

\* conversionFactors[category][unit] is truthy
HasFactor(category, unit) ==
    unit \in DOMAIN conversionFactors(category) \/ unit \in ObjectPrototypeKeys

\* conversionFactors[category][unit] as an operand of * or /
Factor(category, unit) ==
    IF unit \in DOMAIN conversionFactors(category)
    THEN Num(conversionFactors(category)[unit])
    ELSE NaN

\* the if / else-if chain that finds the category of a unit; '' when none
CategoryOf(unit) ==
    IF HasFactor("mass", unit) THEN "mass"
    ELSE IF HasFactor("volume", unit) THEN "volume"
    ELSE IF HasFactor("count", unit) THEN "count"
    ELSE ""

\* convertUnits altered: no early return for equal units
convertUnitsStrict(value, fromUnit, toUnit) ==
    LET standardizedFromUnit == toLowerCase(fromUnit)
        standardizedToUnit   == toLowerCase(toUnit)
        fromCategory == CategoryOf(standardizedFromUnit)
        toCategory   == CategoryOf(standardizedToUnit)
    IN  IF fromCategory # toCategory \/ fromCategory = "" THEN Null
        ELSE LET valueInBase == Mul(value, Factor(fromCategory, standardizedFromUnit))
             IN  Div(valueInBase, Factor(toCategory, standardizedToUnit))

\* convertUnits altered: the factors of the two units exchanged
convertUnitsInverted(value, fromUnit, toUnit) ==
    LET standardizedFromUnit == toLowerCase(fromUnit)
        standardizedToUnit   == toLowerCase(toUnit)
        fromCategory == CategoryOf(standardizedFromUnit)
        toCategory   == CategoryOf(standardizedToUnit)
    IN  IF standardizedFromUnit = standardizedToUnit THEN value
        ELSE IF fromCategory # toCategory \/ fromCategory = "" THEN Null
        ELSE LET valueInBase == Mul(value, Factor(toCategory, standardizedToUnit))
             IN  Div(valueInBase, Factor(fromCategory, standardizedFromUnit))

\* convertUnits altered: the two categories are not compared
convertUnitsUnchecked(value, fromUnit, toUnit) ==
    LET standardizedFromUnit == toLowerCase(fromUnit)
        standardizedToUnit   == toLowerCase(toUnit)
        fromCategory == CategoryOf(standardizedFromUnit)
        toCategory   == CategoryOf(standardizedToUnit)
    IN  IF standardizedFromUnit = standardizedToUnit THEN value
        ELSE IF fromCategory = "" \/ toCategory = "" THEN Null
        ELSE LET valueInBase == Mul(value, Factor(fromCategory, standardizedFromUnit))
             IN  Div(valueInBase, Factor(toCategory, standardizedToUnit))

convertUnits(value, fromUnit, toUnit) ==
    LET standardizedFromUnit == toLowerCase(fromUnit)
        standardizedToUnit   == toLowerCase(toUnit)
        fromCategory == CategoryOf(standardizedFromUnit)
        toCategory   == CategoryOf(standardizedToUnit)
    IN  IF standardizedFromUnit = standardizedToUnit THEN value
        ELSE IF fromCategory # toCategory \/ fromCategory = "" THEN Null
        ELSE LET valueInBase == Mul(value, Factor(fromCategory, standardizedFromUnit))
             IN  Div(valueInBase, Factor(toCategory, standardizedToUnit))


(***************************************************************************)
(* Documents.  A collection is a function from document ids to documents;  *)
(* an id that holds no document maps to the blank record.  A snapshot      *)
(* lists the documents in id order (snapshot.docs of a collection without  *)
(* orderBy); the ids addDoc generates are random, so a new document can    *)
(* come before or after the older ones: the seed documents leave an id     *)
(* free on either side.                                                    *)
(***************************************************************************)
NoDoc ==
    [exists |-> FALSE, name |-> "", type |-> "", unit_value |-> 0,
     unit_type |-> "", stock |-> Num(0)]

Item(name, type, unitValue, unitType, stock) ==
    [exists |-> TRUE, name |-> name, type |-> type, unit_value |-> unitValue,
     unit_type |-> unitType, stock |-> stock]

EmptyItems == [i \in ItemIds |-> NoDoc]

Ingredient(name, quantity, unit) == [name |-> name, quantity |-> quantity, unit |-> unit]

\* the three seed recipes and room for the recipes the form can add
RecipeIds == 1..(3 + MaxOps)

\* a recipe document that does not exist
NoRecipe == [exists |-> FALSE, name |-> "", ingredients |-> << >>]

EmptyRecipes == [r \in RecipeIds |-> NoRecipe]

\* Recipes as the recipe form writes them: at least one ingredient, units of
\* its select (g, cc, unidad), names that were raw materials when the recipe
\* was saved.  Cake lists flour twice, each entry for half of the stock; Mix
\* has an ingredient that has since left the inventory, one whose unit cannot
\* be converted, one that asks for more than the stock, and one that only a
\* finished good is still named after
SeedRecipes ==
    [r \in RecipeIds |->
        CASE r = 1 -> [exists |-> TRUE, name |-> "Bread",
                       ingredients |-> << Ingredient("flour", Num(100), "g") >>]
          [] r = 2 -> [exists |-> TRUE, name |-> "Cake",
                       ingredients |-> << Ingredient("Flour", Num(75), "g"),
                                          Ingredient("flour", Num(75), "g") >>]
          [] r = 3 -> [exists |-> TRUE, name |-> "Mix",
                       ingredients |-> << Ingredient("Sugar", Num(1), "g"),
                                          Ingredient("flour", Num(5), "cc"),
                                          Ingredient("FLOUR", Num(200), "g"),
                                          Ingredient("bread", Num(1), "unidad") >>]
          [] OTHER -> NoRecipe]

SeedInventory ==
    [i \in ItemIds |->
        CASE i = 2 -> Item("flour", "raw_material", 150, "g", Num(1))
          [] i = 3 -> Item("Bread", "finished_good", 1, "unidad", Num(2))
          [] OTHER -> NoDoc]

\* the three seed orders and room for the orders the form can add
OrderIds == 1..(3 + MaxOps)

NoOrder ==
    [exists |-> FALSE, customerName |-> "", selectedRecipeId |-> 0,
     productDescription |-> "", quantity |-> 0, orderDate |-> "", status |-> ""]

Order(customerName, recipeId, description, quantity, orderDate, status) ==
    [exists |-> TRUE, customerName |-> customerName, selectedRecipeId |-> recipeId,
     productDescription |-> description, quantity |-> quantity,
     orderDate |-> orderDate, status |-> status]

EmptyOrders == [o \in OrderIds |-> NoOrder]

SeedOrders ==
    [o \in OrderIds |->
        CASE o = 1 -> Order("Ana", 1, "", 1, "2024-05-01", "Pendiente")
          [] o = 2 -> Order("Ana", 0, "BREAD", 2, "2024-05-01", "Pendiente")
          [] o = 3 -> Order("Ana", 0, "Flour", 1, "2024-05-01", "Pendiente")
          [] OTHER -> NoOrder]

\* values typed into the production quantity box, after parseInt(...) || 1
ProductionQuantities == {-1, 1, 2}

Min(S) == CHOOSE x \in S : \A y \in S : x <= y

(***************************************************************************)
(* State.                                                                  *)
(***************************************************************************)
VARIABLES
    inventory,   \* the Firestore inventory collection
    recipes,     \* the Firestore recipes collection
    orders,      \* the Firestore sales_orders collection
    page,        \* page[c]: the page tab c shows (App.currentPage)
    invSnap,     \* invSnap[c]: inventoryItems / items state of the mounted page
    ordSnap,     \* ordSnap[c]: salesOrders state of the SalesNote page
    recSnap,     \* recSnap[c]: recipes state of the Recipes or SalesNote page
    synced,      \* synced[c]: the page's inventory listener has delivered a snapshot
    op,          \* op[c]: the handler invocation of tab c, in flight or last returned
    form,        \* form[c]: the form of the mounted page, as last loaded or reset
    nOps,        \* user operations so far
    issued,      \* the document ids addDoc has generated so far, per collection
    conv         \* a call of convertUnits: its arguments and what it returned

vars ==
    << inventory, recipes, orders, page, invSnap, ordSnap, recSnap, synced, op, form, nOps,
       issued, conv >>

\* the pages that have handlers (App.renderPage)
Pages == {"inventory", "recipes", "sales_note"}

\* docId, stock, item, order and recipe hold the write a form or a row button is
\* awaiting (docId = 0: addDoc); mounted tells whether the component that made
\* the call is still on the page
IdleOp ==
    [kind |-> "none", pc |-> "idle", result |-> "none", recipeName |-> "",
     qty |-> 0, items |-> EmptyItems, deductions |-> << >>,
     idx |-> 0, fgId |-> 0, fgStock |-> Num(0), orderId |-> 0, newStatus |-> "",
     confirmed |-> FALSE, messages |-> << >>,
     docId |-> 0, stock |-> Num(0), item |-> NoDoc, order |-> NoOrder,
     recipe |-> NoRecipe, mounted |-> TRUE]

\* a handler that has returned leaves only the message it showed (the messages
\* of a missing or insufficient finished product also name the product, the one
\* of a refused production lists the shortages)
Returned(kind, result) == [IdleOp EXCEPT !.kind = kind, !.result = result]

\* one row of the ingredient inputs of the recipe form
BlankIngredient == Ingredient("", Typed(""), "g")

\* the useState values of the form of a page that has just been mounted
\* (App.js 359-363, 684-687, 1132-1138), which resetForm puts back
EmptyForm ==
    [editingItemId |-> 0, newItemName |-> "", newItemUnitValue |-> Typed(""),
     newItemUnitType |-> "g", newItemStock |-> Typed(""),
     editingOrderId |-> 0, newCustomerName |-> "", selectedRecipeId |-> 0,
     newProductDetails |-> "", newOrderQuantity |-> Typed(""), newOrderDate |-> "",
     editingRecipeId |-> 0, newRecipeName |-> "", newIngredients |-> << BlankIngredient >>]

\* no call of convertUnits on its own
NoCall == [value |-> Num(0), fromUnit |-> "", toUnit |-> "", result |-> Null, pc |-> "none"]

Init ==
    /\ conv = NoCall
    /\ inventory = SeedInventory
    /\ recipes = SeedRecipes
    /\ orders = SeedOrders
    /\ page \in [Clients -> Pages]
    /\ invSnap = [c \in Clients |-> EmptyItems]
    /\ ordSnap = [c \in Clients |-> EmptyOrders]
    /\ recSnap = [c \in Clients |-> EmptyRecipes]
    /\ synced = [c \in Clients |-> FALSE]
    /\ op = [c \in Clients |-> IdleOp]
    /\ form = [c \in Clients |-> EmptyForm]
    /\ nOps = 0
    /\ issued = [items   |-> {i \in ItemIds : SeedInventory[i].exists},
                 orders  |-> {o \in OrderIds : SeedOrders[o].exists},
                 recipes |-> {r \in RecipeIds : SeedRecipes[r].exists}]


(***************************************************************************)
(* Navigation and the onSnapshot listeners.  Showing a page mounts its     *)
(* component with empty state; the listeners then deliver the collections  *)
(* whenever Firestore pushes them.                                         *)
(***************************************************************************)
\* what a page keeps of an inventory document (SalesNote keeps finished goods only)
PageView(p, doc) ==
    IF p = "sales_note" /\ doc.type # "finished_good" THEN NoDoc ELSE doc

Navigate(c, p) ==
    /\ page[c] # p
    /\ nOps < MaxOps
    /\ nOps' = nOps + 1
    /\ page' = [page EXCEPT ![c] = p]
    /\ invSnap' = [invSnap EXCEPT ![c] = EmptyItems]
    /\ ordSnap' = [ordSnap EXCEPT ![c] = EmptyOrders]
    /\ recSnap' = [recSnap EXCEPT ![c] = EmptyRecipes]
    /\ synced' = [synced EXCEPT ![c] = FALSE]
    /\ form' = [form EXCEPT ![c] = EmptyForm]
    /\ op' = [op EXCEPT ![c].mounted = IF op[c].pc = "write" THEN FALSE ELSE @]
    /\ UNCHANGED << inventory, recipes, orders, conv, issued >>

OnInventorySnapshot(c) ==
    LET itemsData == [i \in ItemIds |-> PageView(page[c], inventory[i])]
    IN  /\ ~synced[c] \/ invSnap[c] # itemsData
        /\ invSnap' = [invSnap EXCEPT ![c] = itemsData]
        /\ synced' = [synced EXCEPT ![c] = TRUE]
        /\ UNCHANGED << inventory, recipes, orders, page, ordSnap, op, nOps, conv, recSnap, issued, form >>

OnOrdersSnapshot(c) ==
    /\ page[c] = "sales_note"
    /\ ordSnap[c] # orders
    /\ ordSnap' = [ordSnap EXCEPT ![c] = orders]
    /\ UNCHANGED << inventory, recipes, orders, page, invSnap, synced, op, nOps, conv, recSnap, issued, form >>

\* the recipes listener of the Recipes page (App.js 706-710) or of the SalesNote
\* page (1172-1176)
OnRecipesSnapshot(c) ==
    /\ page[c] \in {"recipes", "sales_note"}
    /\ recSnap[c] # recipes
    /\ recSnap' = [recSnap EXCEPT ![c] = recipes]
    /\ UNCHANGED << inventory, recipes, orders, page, invSnap, ordSnap, synced, op, nOps,
                    issued, conv, form >>

(***************************************************************************)
(* Firestore writes.  The tab that writes sees its own write in its        *)
(* listeners at once; the other tabs see it when their listener fires.     *)
(***************************************************************************)
\* UpdateStock altered: the whole document is written as the tab holds it
UpdateStockReplacing(c, id, stock) ==
    /\ inventory[id].exists
    /\ inventory' = [inventory EXCEPT ![id] = [invSnap[c][id] EXCEPT !.stock = stock]]
    /\ invSnap' = [invSnap EXCEPT ![c][id] =
                      IF @.exists THEN [@ EXCEPT !.stock = stock] ELSE @]

\* updateDoc(itemRef, { stock }): rejected when the document does not exist
UpdateStock(c, id, stock) ==
    /\ inventory[id].exists
    /\ inventory' = [inventory EXCEPT ![id].stock = stock]
    /\ invSnap' = [invSnap EXCEPT ![c][id] =
                      IF @.exists THEN [@ EXCEPT !.stock = stock] ELSE @]

\* addDoc(inventoryRef, doc): the document gets an id that was never used
AddItem(c, id, doc) ==
    /\ id \notin issued.items
    /\ issued' = [issued EXCEPT !.items = @ \cup {id}]
    /\ inventory' = [inventory EXCEPT ![id] = doc]
    /\ invSnap' = [invSnap EXCEPT ![c][id] =
                      IF synced[c] THEN PageView(page[c], doc) ELSE @]

\* updateDoc(orderRef, { status })
UpdateStatus(c, o, status) ==
    /\ orders[o].exists
    /\ orders' = [orders EXCEPT ![o].status = status]
    /\ ordSnap' = [ordSnap EXCEPT ![c][o] =
                      IF @.exists THEN [@ EXCEPT !.status = status] ELSE @]


(***************************************************************************)
(* handleConfirmProduction (App.js 834-938): planning.                     *)
(***************************************************************************)
\* FindItem altered: || written for && in the predicate of find
FindItemEither(items, name, type) ==
    LET found == {i \in ItemIds : /\ items[i].exists
                                  /\ \/ toLowerCase(items[i].name) = toLowerCase(name)
                                     \/ items[i].type = type}
    IN  IF found = {} THEN 0 ELSE Min(found)

\* FindItem altered: the type of the item is not compared
FindItemByName(items, name, type) ==
    LET found == {i \in ItemIds : /\ items[i].exists
                                  /\ toLowerCase(items[i].name) = toLowerCase(name)}
    IN  IF found = {} THEN 0 ELSE Min(found)

\* inventoryItems.find(item => same name ignoring case && type === wanted); 0 if none
FindItem(items, name, type) ==
    LET found == {i \in ItemIds : /\ items[i].exists
                                  /\ toLowerCase(items[i].name) = toLowerCase(name)
                                  /\ items[i].type = type}
    IN  IF found = {} THEN 0 ELSE Min(found)

Shortage(name, kind, required, available, unit) ==
    [name |-> name, kind |-> kind, required |-> required, available |-> available,
     unit |-> unit]

\* StockIsShort altered: the operands of < exchanged
StockIsShortReversed(currentStockTotalInBaseUnit, requiredAmountConverted) ==
    Less(requiredAmountConverted, currentStockTotalInBaseUnit)

\* StockIsShort altered: <= written for <
StockIsShortOrEqual(currentStockTotalInBaseUnit, requiredAmountConverted) ==
    LessEq(currentStockTotalInBaseUnit, requiredAmountConverted)

\* if (currentStockTotalInBaseUnit < requiredAmountConverted)
StockIsShort(currentStockTotalInBaseUnit, requiredAmountConverted) ==
    Less(currentStockTotalInBaseUnit, requiredAmountConverted)

\* AfterStockCheck altered: the shortage is reported, canProduce is left as it was
KeepCanProduce(canProduce, short) == canProduce

\* canProduce = false inside that if
AfterStockCheck(canProduce, short) == canProduce /\ ~short

\* one pass of the for loop over recipe.ingredients
PlanIngredient(items, ing, quantityToProduce, acc) ==
    LET id == FindItem(items, ing.name, "raw_material")
        inventoryItem == items[id]
        requiredAmountConverted ==
            convertUnits(Mul(ing.quantity, Num(quantityToProduce)),
                         ing.unit, inventoryItem.unit_type)
        currentStockTotalInBaseUnit ==
            Mul(inventoryItem.stock, Num(inventoryItem.unit_value))
        newStockForIngredient ==
            Div(Sub(currentStockTotalInBaseUnit, requiredAmountConverted),
                Num(inventoryItem.unit_value))
    IN  IF id = 0 THEN
            [acc EXCEPT !.canProduce = FALSE,
                        !.shortageMessages =
                            Append(@, Shortage(ing.name, "notFound", Null, Null, ""))]
        ELSE IF requiredAmountConverted = Null THEN
            [acc EXCEPT !.canProduce = FALSE,
                        !.shortageMessages =
                            Append(@, Shortage(ing.name, "conversion", Null, Null, ""))]
        ELSE
            [canProduce |->
                 AfterStockCheck(acc.canProduce,
                     StockIsShort(currentStockTotalInBaseUnit, requiredAmountConverted)),
             shortageMessages |->
                 IF StockIsShort(currentStockTotalInBaseUnit, requiredAmountConverted)
                 THEN Append(acc.shortageMessages,
                             Shortage(ing.name, "insufficient", requiredAmountConverted,
                                      currentStockTotalInBaseUnit, inventoryItem.unit_type))
                 ELSE acc.shortageMessages,
             deductions |->
                 Append(acc.deductions,
                        [itemId |-> id, newStock |-> newStockForIngredient])]

RECURSIVE PlanFromStopping(_, _, _, _, _)
\* PlanFrom altered: break at the first problem in place of continue
PlanFromStopping(items, ingredients, quantityToProduce, k, acc) ==
    IF k > Len(ingredients) \/ ~acc.canProduce THEN acc
    ELSE PlanFromStopping(items, ingredients, quantityToProduce, k + 1,
                          PlanIngredient(items, ingredients[k], quantityToProduce, acc))

RECURSIVE PlanFrom(_, _, _, _, _)
\* for (const ing of recipe.ingredients), from entry k on
PlanFrom(items, ingredients, quantityToProduce, k, acc) ==
    IF k > Len(ingredients) THEN acc
    ELSE PlanFrom(items, ingredients, quantityToProduce, k + 1,
                  PlanIngredient(items, ingredients[k], quantityToProduce, acc))

\* step 1 of the handler: requirements and stock check over the tab's snapshot
Plan(items, recipe, quantityToProduce) ==
    PlanFrom(items, recipe.ingredients, quantityToProduce, 1,
             [canProduce |-> TRUE, shortageMessages |-> << >>, deductions |-> << >>])

\* the ids addDoc can still generate
FreeIds == ItemIds \ issued.items

\* Declines altered: the handler goes on whatever the answer
DeclinesNever(confirm) == FALSE

\* if (!window.confirm(...)) return;
Declines(confirm) == ~confirm

\* calls in flight that will create an inventory document with addDoc
PendingAdds ==
    {d \in Clients : \/ op[d].kind = "production" /\ op[d].pc # "idle" /\ op[d].fgId = 0
                     \/ op[d].kind = "item" /\ op[d].pc = "write" /\ op[d].docId = 0}

\* QuantityIsInvalid altered: only zero is refused
QuantityIsZero(quantityToProduce) == quantityToProduce = 0

\* if (quantityToProduce <= 0)
QuantityIsInvalid(quantityToProduce) == quantityToProduce <= 0

HandleConfirmProduction(c, r, quantityToProduce) ==
    LET recipe == recSnap[c][r]    \* the row of the recipes table that was clicked
        plan == Plan(invSnap[c], recipe, quantityToProduce)
        finishedProductInInventory == FindItem(invSnap[c], recipe.name, "finished_good")
        call == [IdleOp EXCEPT !.kind = "production", !.recipeName = recipe.name,
                               !.qty = quantityToProduce, !.items = invSnap[c]]
    IN  /\ page[c] = "recipes"
        /\ op[c].pc = "idle"
        /\ recipe.exists
        /\ nOps < MaxOps
        /\ nOps' = nOps + 1
        /\ IF QuantityIsInvalid(quantityToProduce) THEN
               op' = [op EXCEPT ![c] = Returned("production", "validation")]
           ELSE IF ~plan.canProduce THEN
               op' = [op EXCEPT ![c] = [Returned("production", "shortage")
                                           EXCEPT !.messages = plan.shortageMessages]]
           ELSE \E confirm \in BOOLEAN :
               IF Declines(confirm) THEN
                   op' = [op EXCEPT ![c] = Returned("production", "declined")]
               ELSE
                   /\ finishedProductInInventory = 0
                          => Cardinality(FreeIds) > Cardinality(PendingAdds)
                   /\ op' = [op EXCEPT ![c] =
                          [call EXCEPT
                              !.pc = IF plan.deductions = << >> THEN "finished" ELSE "deduct",
                              !.result = "running",
                              !.confirmed = confirm,
                              !.deductions = plan.deductions,
                              !.idx = 1,
                              !.fgId = finishedProductInInventory,
                              !.fgStock = IF finishedProductInInventory = 0 THEN Num(0)
                                          ELSE invSnap[c][finishedProductInInventory].stock]]
        /\ UNCHANGED << inventory, recipes, orders, page, invSnap, ordSnap, synced, conv, recSnap, issued, form >>

(***************************************************************************)
(* handleConfirmProduction: the writes inside try (App.js 907-937).        *)
(***************************************************************************)
\* await updateDoc(itemRef, { stock: deduction.newStock }) resolves
DeductIngredient(c) ==
    LET deduction == op[c].deductions[op[c].idx]
    IN  /\ op[c].kind = "production" /\ op[c].pc = "deduct"
        /\ UpdateStock(c, deduction.itemId, deduction.newStock)
        /\ op' = [op EXCEPT ![c].idx = @ + 1,
                            ![c].pc = IF op[c].idx = Len(op[c].deductions)
                                      THEN "finished" ELSE "deduct"]
        /\ UNCHANGED << recipes, orders, page, ordSnap, synced, nOps, conv, recSnap, issued, form >>

\* the finished product is in the snapshot: updateDoc(productRef, { stock: newStock })
UpdateFinishedProduct(c) ==
    LET newStock == Add(op[c].fgStock, Num(op[c].qty))
    IN  /\ op[c].kind = "production" /\ op[c].pc = "finished"
        /\ op[c].fgId # 0
        /\ UpdateStock(c, op[c].fgId, newStock)
        /\ op' = [op EXCEPT ![c].pc = "idle", ![c].result = "success"]
        /\ UNCHANGED << recipes, orders, page, ordSnap, synced, nOps, conv, recSnap, issued, form >>

\* it is not: addDoc(inventoryRef, { name: recipe.name, unit_value: 1, ... })
AddFinishedProduct(c) ==
    /\ op[c].kind = "production" /\ op[c].pc = "finished"
    /\ op[c].fgId = 0
    /\ \E id \in FreeIds :
           AddItem(c, id, Item(op[c].recipeName, "finished_good", 1, "unidad", Num(op[c].qty)))
    /\ op' = [op EXCEPT ![c].pc = "idle", ![c].result = "success"]
    /\ UNCHANGED << recipes, orders, page, ordSnap, synced, nOps, conv, recSnap, form >>

\* ProductionWriteFails altered: the catch block shows the success message
ProductionWriteSwallowed(c) ==
    /\ op[c].kind = "production" /\ op[c].pc \in {"deduct", "finished"}
    /\ op' = [op EXCEPT ![c] = Returned("production", "success")]
    /\ UNCHANGED << inventory, recipes, orders, page, invSnap, ordSnap, synced, nOps, conv, recSnap, issued, form >>

\* a write of the try block rejects: catch (e) shows the error modal
ProductionWriteFails(c) ==
    /\ op[c].kind = "production" /\ op[c].pc \in {"deduct", "finished"}
    /\ op' = [op EXCEPT ![c] = Returned("production", "error")]
    /\ UNCHANGED << inventory, recipes, orders, page, invSnap, ordSnap, synced, nOps, conv, recSnap, issued, form >>


(***************************************************************************)
(* handleChangeOrderStatus (App.js 1258-1324).                             *)
(***************************************************************************)
\* FinishedStockIsShort altered: the operands of < exchanged
FinishedStockIsShortReversed(stock, quantity) == Less(Num(quantity), stock)

\* if (finishedProduct.stock < quantity)
FinishedStockIsShort(stock, quantity) == Less(stock, Num(quantity))

HandleChangeOrderStatus(c, o) ==
    LET order == ordSnap[c][o]
        currentStatus == order.status
        selectedRecipeId == order.selectedRecipeId
        quantity == order.quantity
        newStatus == IF currentStatus = "Pendiente" THEN "Completado" ELSE "Pendiente"
        productNameForDeduction ==
            IF selectedRecipeId # 0 /\ recSnap[c][selectedRecipeId].exists
            THEN recSnap[c][selectedRecipeId].name
            ELSE order.productDescription
        finishedProduct == FindItem(invSnap[c], productNameForDeduction, "finished_good")
        call == [IdleOp EXCEPT !.kind = IF newStatus = "Completado" THEN "complete"
                                        ELSE "reopen",
                               !.recipeName = productNameForDeduction,
                               !.qty = quantity, !.items = invSnap[c],
                               !.orderId = o, !.newStatus = newStatus]
    IN  /\ page[c] = "sales_note"
        /\ op[c].pc = "idle"
        /\ order.exists
        /\ nOps < MaxOps
        /\ nOps' = nOps + 1
        /\ IF newStatus = "Completado" THEN
               IF finishedProduct = 0 THEN
                   op' = [op EXCEPT ![c] = [Returned("complete", "notFound")
                                               EXCEPT !.recipeName = productNameForDeduction]]
               ELSE IF FinishedStockIsShort(invSnap[c][finishedProduct].stock, quantity) THEN
                   op' = [op EXCEPT ![c] = [Returned("complete", "insufficient")
                                               EXCEPT !.recipeName = productNameForDeduction]]
               ELSE \E confirm \in BOOLEAN :
                   op' = [op EXCEPT ![c] =
                       IF Declines(confirm) THEN Returned("complete", "declined")
                       ELSE [call EXCEPT !.pc = "stock", !.result = "running",
                                         !.confirmed = confirm,
                                         !.fgId = finishedProduct,
                                         !.fgStock = invSnap[c][finishedProduct].stock]]
           ELSE \E confirm \in BOOLEAN :
                   op' = [op EXCEPT ![c] =
                       IF Declines(confirm) THEN Returned("reopen", "declined")
                       ELSE [call EXCEPT !.pc = "status", !.result = "running",
                                         !.confirmed = confirm]]
        /\ UNCHANGED << inventory, recipes, orders, page, invSnap, ordSnap, synced, conv, recSnap, issued, form >>

\* await updateDoc(productRef, { stock: finishedProduct.stock - quantity }) resolves
DeductFinishedProduct(c) ==
    LET newStock == Sub(op[c].fgStock, Num(op[c].qty))
    IN  /\ op[c].kind = "complete" /\ op[c].pc = "stock"
        /\ UpdateStock(c, op[c].fgId, newStock)
        /\ op' = [op EXCEPT ![c].pc = "status"]
        /\ UNCHANGED << recipes, orders, page, ordSnap, synced, nOps, conv, recSnap, issued, form >>

\* UpdateOrderStatus altered: reopening also puts the quantity back in stock
UpdateOrderStatusRestoring(c) ==
    LET fg == FindItem(inventory, op[c].recipeName, "finished_good")
    IN  /\ op[c].kind \in {"complete", "reopen"} /\ op[c].pc = "status"
        /\ UpdateStatus(c, op[c].orderId, op[c].newStatus)
        /\ op' = [op EXCEPT ![c].pc = "idle", ![c].result = "success"]
        /\ IF op[c].kind = "reopen" /\ fg # 0
           THEN UpdateStock(c, fg, Add(inventory[fg].stock, Num(op[c].qty)))
           ELSE UNCHANGED << inventory, invSnap >>
        /\ UNCHANGED << recipes, page, synced, nOps, conv, recSnap, issued, form >>

\* await updateDoc(orderRef, { status: newStatus }) resolves; the success modal shows
UpdateOrderStatus(c) ==
    /\ op[c].kind \in {"complete", "reopen"} /\ op[c].pc = "status"
    /\ UpdateStatus(c, op[c].orderId, op[c].newStatus)
    /\ op' = [op EXCEPT ![c].pc = "idle", ![c].result = "success"]
    /\ UNCHANGED << inventory, recipes, page, invSnap, synced, nOps, conv, recSnap, issued, form >>

\* a write of the try block rejects: catch (e) shows the error modal
OrderWriteFails(c) ==
    /\ op[c].kind \in {"complete", "reopen"} /\ op[c].pc \in {"stock", "status"}
    /\ op' = [op EXCEPT ![c] = Returned(op[c].kind, "error")]
    /\ UNCHANGED << inventory, recipes, orders, page, invSnap, ordSnap, synced, nOps, conv, recSnap, issued, form >>

(***************************************************************************)
(* The forms and the row buttons.  A handler that awaits one write is two  *)
(* steps: the call, which validates and leaves the write pending, and the  *)
(* settling of the write, which Firestore resolves or rejects whatever the *)
(* tab shows by then.  form[c] holds the fields as handleEdit... loaded     *)
(* them or resetForm cleared them; what the user types over them before    *)
(* pressing the button is the input of the call.                           *)
(***************************************************************************)
\* a call that awaits its write
Awaiting(kind) == [IdleOp EXCEPT !.kind = kind, !.pc = "write", !.result = "running"]

\* resetForm (App.js 474-480, 827-832, 1327-1335)
resetForm(c) == form' = [form EXCEPT ![c] = EmptyForm]

\* resetForm() at the end of a try block: it clears nothing once the page that
\* made the call was left
ResetAfterSave(c) == IF op[c].mounted THEN resetForm(c) ELSE UNCHANGED form

\* the Cancelar button of the three forms (onClick={resetForm}, App.js 547,
\* 1040, 1420), there whether or not a row is loaded; leaving a loaded row
\* belongs to the operation that loaded it
Cancelar(c) ==
    /\ page[c] \in {"inventory", "recipes", "sales_note"}
    /\ resetForm(c)
    /\ UNCHANGED << inventory, recipes, orders, page, invSnap, ordSnap, recSnap, synced,
                    op, nOps, issued, conv >>

(***************************************************************************)
(* handleStockChange (App.js 459-472): the stock box of an inventory row.  *)
(***************************************************************************)
StockInputs == {Typed(""), Typed("-1"), Typed("3")}

HandleStockChange(c, itemId, newStockValue) ==
    LET stock == parseFloat(newStockValue)
    IN  /\ page[c] = "inventory"
        /\ op[c].pc = "idle"
        /\ invSnap[c][itemId].exists
        /\ nOps < MaxOps
        /\ nOps' = nOps + 1
        /\ IF isNaN(stock) \/ Less(stock, Num(0)) THEN
               op' = [op EXCEPT ![c] = Returned("stockChange", "validation")]
           ELSE
               op' = [op EXCEPT ![c] = [Awaiting("stockChange") EXCEPT
                                           !.docId = itemId, !.stock = stock]]
        /\ UNCHANGED << inventory, recipes, orders, page, invSnap, ordSnap, recSnap, synced,
                        form, issued, conv >>

\* await updateDoc(itemRef, { stock: stock }) resolves
StockWriteResolves(c) ==
    /\ op[c].kind = "stockChange" /\ op[c].pc = "write"
    /\ UpdateStock(c, op[c].docId, op[c].stock)
    /\ op' = [op EXCEPT ![c] = Returned("stockChange", "saved")]
    /\ UNCHANGED << recipes, orders, page, ordSnap, recSnap, synced, form, nOps, issued,
                    conv >>

\* it rejects: catch (e) (App.js 468-471)
StockWriteFails(c) ==
    /\ op[c].kind = "stockChange" /\ op[c].pc = "write"
    /\ op' = [op EXCEPT ![c] = Returned("stockChange", "error")]
    /\ UNCHANGED << inventory, recipes, orders, page, invSnap, ordSnap, recSnap, synced,
                    form, nOps, issued, conv >>

(***************************************************************************)
(* The item form (App.js 395-445).  handleEditItem loads a row of the      *)
(* table into the fields; handleAddOrUpdateItem saves the fields, to the   *)
(* document of editingItemId when that is set and to a new one otherwise.  *)
(***************************************************************************)
\* options of the unit select that the model picks (unitOptions, App.js 368)
UnitTypeInputs == {"g", "cc"}

\* String.prototype.trim on the names the model types
trim(s) == IF s = " " THEN "" ELSE s

HandleEditItem(c, id) ==
    LET item == invSnap[c][id]
    IN  /\ page[c] = "inventory"
        /\ item.exists
        /\ nOps < MaxOps
        /\ nOps' = nOps + 1
        /\ form' = [form EXCEPT ![c].editingItemId = id,
                                ![c].newItemName = item.name,
                                ![c].newItemUnitValue = toString(Num(item.unit_value)),
                                ![c].newItemUnitType = item.unit_type,
                                ![c].newItemStock = toString(item.stock)]
        /\ UNCHANGED << inventory, recipes, orders, page, invSnap, ordSnap, recSnap, synced,
                        op, issued, conv >>

\* the fields as the user can leave them before pressing the button.  A new
\* item: Flour, 150 of either unit, 3 in stock, or that with the name left empty
\* or blank, or with a quantity of 0.  A loaded row: as loaded, or with the name,
\* the unit or the stock typed over
ItemFormInputs(c) ==
    IF form[c].editingItemId = 0
    THEN {<< "Flour", Typed("150"), ut, Typed("3") >> : ut \in UnitTypeInputs}
         \cup {<< name, Typed("150"), "g", Typed("3") >> : name \in {"", " "}}
         \cup {<< "Flour", Typed("0"), "g", Typed("3") >>}
    ELSE {<< name, form[c].newItemUnitValue, form[c].newItemUnitType,
             form[c].newItemStock >> : name \in {"Sugar", form[c].newItemName}}
         \cup {<< form[c].newItemName, form[c].newItemUnitValue, "cc",
                  form[c].newItemStock >>}
         \cup {<< form[c].newItemName, form[c].newItemUnitValue,
                  form[c].newItemUnitType, st >> : st \in {Typed("-1"), Typed("3")}}

HandleAddOrUpdateItem(c, newItemName, newItemUnitValue, newItemUnitType, newItemStock) ==
    LET editingItemId == form[c].editingItemId
        unitValue == parseFloat(newItemUnitValue)
        stock == parseFloat(newItemStock)
        doc == Item(newItemName, "raw_material", unitValue.n, newItemUnitType, stock)
    IN  /\ page[c] = "inventory"
        /\ op[c].pc = "idle"
        /\ editingItemId = 0 => nOps < MaxOps
        /\ nOps' = IF editingItemId = 0 THEN nOps + 1 ELSE nOps
        /\ IF \/ trim(newItemName) = "" \/ newItemUnitValue = Typed("")
              \/ trim(newItemUnitType) = "" \/ newItemStock = Typed("")
              \/ isNaN(unitValue) \/ LessEq(unitValue, Num(0))
              \/ isNaN(stock) \/ Less(stock, Num(0)) THEN
               op' = [op EXCEPT ![c] = Returned("item", "validation")]
           ELSE
               /\ editingItemId = 0 => Cardinality(FreeIds) > Cardinality(PendingAdds)
               /\ op' = [op EXCEPT ![c] = [Awaiting("item") EXCEPT
                                              !.docId = editingItemId, !.item = doc]]
        /\ UNCHANGED << inventory, recipes, orders, page, invSnap, ordSnap, recSnap, synced,
                        form, issued, conv >>

\* await updateDoc(itemRef, {...}) or await addDoc(inventoryRef, {...}) resolves;
\* the success modal shows and resetForm() runs
ItemWriteResolves(c) ==
    LET id == op[c].docId
    IN  /\ op[c].kind = "item" /\ op[c].pc = "write"
        /\ IF id # 0 THEN
               /\ inventory[id].exists
               /\ inventory' = [inventory EXCEPT ![id] = op[c].item]
               /\ invSnap' = [invSnap EXCEPT ![c][id] =
                                 IF @.exists THEN PageView(page[c], op[c].item) ELSE @]
               /\ UNCHANGED issued
           ELSE \E new \in FreeIds : AddItem(c, new, op[c].item)
        /\ op' = [op EXCEPT ![c] = Returned("item", "saved")]
        /\ ResetAfterSave(c)
        /\ UNCHANGED << recipes, orders, page, ordSnap, recSnap, synced, nOps, conv >>

\* it rejects: catch (e) (App.js 432-435)
ItemWriteFails(c) ==
    /\ op[c].kind = "item" /\ op[c].pc = "write"
    /\ op' = [op EXCEPT ![c] = Returned("item", "error")]
    /\ UNCHANGED << inventory, recipes, orders, page, invSnap, ordSnap, recSnap, synced,
                    form, nOps, issued, conv >>

(***************************************************************************)
(* handleDeleteItem (App.js 447-457).                                      *)
(***************************************************************************)
HandleDeleteItem(c, id) ==
    /\ page[c] = "inventory"
    /\ op[c].pc = "idle"
    /\ invSnap[c][id].exists
    /\ nOps < MaxOps
    /\ nOps' = nOps + 1
    /\ \E confirm \in BOOLEAN :
           op' = [op EXCEPT ![c] =
                     IF Declines(confirm) THEN Returned("delete", "declined")
                     ELSE [Awaiting("delete") EXCEPT !.docId = id, !.confirmed = confirm]]
    /\ UNCHANGED << inventory, recipes, orders, page, invSnap, ordSnap, recSnap, synced,
                    form, issued, conv >>

\* await deleteDoc(...) resolves, whether or not the document was still there
DeleteItemResolves(c) ==
    /\ op[c].kind = "delete" /\ op[c].pc = "write"
    /\ inventory' = [inventory EXCEPT ![op[c].docId] = NoDoc]
    /\ invSnap' = [invSnap EXCEPT ![c][op[c].docId] = NoDoc]
    /\ op' = [op EXCEPT ![c] = Returned("delete", "saved")]
    /\ UNCHANGED << recipes, orders, page, ordSnap, recSnap, synced, form, nOps, issued,
                    conv >>

\* it rejects: catch (e) (App.js 452-455)
DeleteItemFails(c) ==
    /\ op[c].kind = "delete" /\ op[c].pc = "write"
    /\ op' = [op EXCEPT ![c] = Returned("delete", "error")]
    /\ UNCHANGED << inventory, recipes, orders, page, invSnap, ordSnap, recSnap, synced,
                    form, nOps, issued, conv >>

(***************************************************************************)
(* The order form (App.js 1195-1243).  handleEditOrder loads a row of the  *)
(* table into the fields; handleAddOrUpdateOrder saves them, always with   *)
(* the status 'Pendiente'.  Of orderData the model keeps the fields that   *)
(* the form validates and those that handleChangeOrderStatus reads.        *)
(***************************************************************************)
QuantityInputs == {Typed(""), Typed("0"), Typed("1.5")}

\* the date input of the order form: empty or filled
DateInputs == {"", "2024-05-01"}

\* the ids addDoc can still generate for an order; orders are only ever found
\* by their id, so which of them it generates makes no difference
FreeOrderIds == OrderIds \ issued.orders

HandleEditOrder(c, id) ==
    LET order == ordSnap[c][id]
    IN  /\ page[c] = "sales_note"
        /\ order.exists
        /\ nOps < MaxOps
        /\ nOps' = nOps + 1
        /\ form' = [form EXCEPT ![c].editingOrderId = id,
                                ![c].newCustomerName = order.customerName,
                                ![c].selectedRecipeId = order.selectedRecipeId,
                                ![c].newProductDetails = order.productDescription,
                                ![c].newOrderQuantity = toString(Num(order.quantity)),
                                ![c].newOrderDate = order.orderDate]
        /\ UNCHANGED << inventory, recipes, orders, page, invSnap, ordSnap, recSnap, synced,
                        op, issued, conv >>

\* the fields as the user can leave them before pressing the button.  A new
\* order: 1.5 Bread for Ana, or that with the description blank, the quantity
\* empty or 0, or the date empty.  A loaded row: as loaded, or with the customer
\* or the date cleared, or the quantity typed over
OrderFormInputs(c) ==
    IF form[c].editingOrderId = 0
    THEN {<< "Ana", 0, "Bread", q, "2024-05-01" >> : q \in QuantityInputs}
         \cup {<< "Ana", 0, " ", Typed("1.5"), "2024-05-01" >>}
         \cup {<< "Ana", 0, "Bread", Typed("1.5"), date >> : date \in DateInputs}
    ELSE {<< cust, form[c].selectedRecipeId, form[c].newProductDetails,
             form[c].newOrderQuantity, form[c].newOrderDate >> :
             cust \in {"", form[c].newCustomerName}}
         \cup {<< form[c].newCustomerName, form[c].selectedRecipeId,
                  form[c].newProductDetails, Typed("-1"), form[c].newOrderDate >>}
         \cup {<< form[c].newCustomerName, form[c].selectedRecipeId,
                  form[c].newProductDetails, form[c].newOrderQuantity, "" >>}

HandleAddOrUpdateOrder(c, newCustomerName, selectedRecipeId, newProductDetails, newOrderQuantity, newOrderDate) ==
    LET editingOrderId == form[c].editingOrderId
        quantity == parseInt(newOrderQuantity)
        orderData == Order(newCustomerName, selectedRecipeId, newProductDetails,
                           quantity.n, newOrderDate, "Pendiente")
    IN  /\ page[c] = "sales_note"
        /\ op[c].pc = "idle"
        /\ editingOrderId = 0 => nOps < MaxOps
        /\ nOps' = IF editingOrderId = 0 THEN nOps + 1 ELSE nOps
        /\ IF \/ trim(newCustomerName) = "" \/ newOrderQuantity = Typed("")
              \/ newOrderDate = ""
              \/ (selectedRecipeId = 0 /\ trim(newProductDetails) = "")
              \/ isNaN(quantity) \/ LessEq(quantity, Num(0)) THEN
               op' = [op EXCEPT ![c] = Returned("order", "validation")]
           ELSE
               op' = [op EXCEPT ![c] = [Awaiting("order") EXCEPT
                                           !.docId = editingOrderId, !.order = orderData]]
        /\ UNCHANGED << inventory, recipes, orders, page, invSnap, ordSnap, recSnap, synced,
                        form, issued, conv >>

\* await updateDoc(orderRef, orderData) or await addDoc(ordersRef, orderData)
\* resolves; the success modal shows and resetForm() runs
OrderFormWriteResolves(c) ==
    LET id == op[c].docId
        new == Min(FreeOrderIds)
    IN  /\ op[c].kind = "order" /\ op[c].pc = "write"
        /\ IF id # 0 THEN
               /\ orders[id].exists
               /\ orders' = [orders EXCEPT ![id] = op[c].order]
               /\ ordSnap' = [ordSnap EXCEPT ![c][id] =
                                 IF @.exists THEN op[c].order ELSE @]
               /\ UNCHANGED issued
           ELSE
               /\ FreeOrderIds # {}
               /\ orders' = [orders EXCEPT ![new] = op[c].order]
               /\ ordSnap' = [ordSnap EXCEPT ![c][new] =
                                 IF page[c] = "sales_note" THEN op[c].order ELSE @]
               /\ issued' = [issued EXCEPT !.orders = @ \cup {new}]
        /\ op' = [op EXCEPT ![c] = Returned("order", "saved")]
        /\ ResetAfterSave(c)
        /\ UNCHANGED << inventory, recipes, page, invSnap, recSnap, synced, nOps, conv >>

\* it rejects: catch (e) (App.js 1228-1231)
OrderFormWriteFails(c) ==
    /\ op[c].kind = "order" /\ op[c].pc = "write"
    /\ op' = [op EXCEPT ![c] = Returned("order", "error")]
    /\ UNCHANGED << inventory, recipes, orders, page, invSnap, ordSnap, recSnap, synced,
                    form, nOps, issued, conv >>

(***************************************************************************)
(* handleDeleteOrder (App.js 1245-1255).                                   *)
(***************************************************************************)
HandleDeleteOrder(c, id) ==
    /\ page[c] = "sales_note"
    /\ op[c].pc = "idle"
    /\ ordSnap[c][id].exists
    /\ nOps < MaxOps
    /\ nOps' = nOps + 1
    /\ \E confirm \in BOOLEAN :
           op' = [op EXCEPT ![c] =
                     IF Declines(confirm) THEN Returned("deleteOrder", "declined")
                     ELSE [Awaiting("deleteOrder") EXCEPT !.docId = id, !.confirmed = confirm]]
    /\ UNCHANGED << inventory, recipes, orders, page, invSnap, ordSnap, recSnap, synced,
                    form, issued, conv >>

\* await deleteDoc(...) resolves, whether or not the document was still there
DeleteOrderResolves(c) ==
    /\ op[c].kind = "deleteOrder" /\ op[c].pc = "write"
    /\ orders' = [orders EXCEPT ![op[c].docId] = NoOrder]
    /\ ordSnap' = [ordSnap EXCEPT ![c][op[c].docId] = NoOrder]
    /\ op' = [op EXCEPT ![c] = Returned("deleteOrder", "saved")]
    /\ UNCHANGED << inventory, recipes, page, invSnap, recSnap, synced, form, nOps, issued,
                    conv >>

\* it rejects: catch (e) (App.js 1250-1253)
DeleteOrderFails(c) ==
    /\ op[c].kind = "deleteOrder" /\ op[c].pc = "write"
    /\ op' = [op EXCEPT ![c] = Returned("deleteOrder", "error")]
    /\ UNCHANGED << inventory, recipes, orders, page, invSnap, ordSnap, recSnap, synced,
                    form, nOps, issued, conv >>

(***************************************************************************)
(* The recipe form (App.js 751-813).  handleEditRecipe loads a row of the  *)
(* list into the fields; handleAddOrUpdateRecipe saves the name and the    *)
(* valid ingredient rows, provided each names a raw material of the tab's  *)
(* inventory snapshot.                                                     *)
(***************************************************************************)
\* the ingredient rows the model types into a new recipe: none; flour 50 g; a
\* finished good by name together with a row whose quantity is not positive
IngredientInputs ==
    { << BlankIngredient >>,
      << Ingredient("flour", Typed("50"), "g") >>,
      << Ingredient("Bread", Typed("1"), "unidad"), Ingredient("flour", Typed("0"), "g") >> }

\* the ids addDoc can still generate for a recipe; a new recipe is only ever
\* found by its id, so which of them it generates makes no difference
FreeRecipeIds == RecipeIds \ issued.recipes

HandleEditRecipe(c, id) ==
    LET recipe == recSnap[c][id]
    IN  /\ page[c] = "recipes"
        /\ recipe.exists
        /\ nOps < MaxOps
        /\ nOps' = nOps + 1
        /\ form' = [form EXCEPT
               ![c].editingRecipeId = id,
               ![c].newRecipeName = recipe.name,
               ![c].newIngredients =
                   IF Len(recipe.ingredients) > 0
                   THEN [k \in 1..Len(recipe.ingredients) |->
                            Ingredient(recipe.ingredients[k].name,
                                       toString(recipe.ingredients[k].quantity),
                                       recipe.ingredients[k].unit)]
                   ELSE << BlankIngredient >>]
        /\ UNCHANGED << inventory, recipes, orders, page, invSnap, ordSnap, recSnap, synced,
                        op, issued, conv >>

\* the fields as the user can leave them before pressing the button: those of a
\* new recipe, or those of the loaded one with the first quantity changed
RecipeFormInputs(c) ==
    IF form[c].editingRecipeId = 0
    THEN {<< name, ings >> : name \in {"", "Pie"}, ings \in IngredientInputs}
    ELSE {<< form[c].newRecipeName, ings >> :
             ings \in {form[c].newIngredients,
                       [form[c].newIngredients EXCEPT ![1].quantity = Typed("150")]}}

\* NoValidIngredient altered: the form saves whatever rows are left
NoValidIngredientNever(filteredIngredients) == FALSE

\* if (filteredIngredients.length === 0)
NoValidIngredient(filteredIngredients) == Len(filteredIngredients) = 0

HandleAddOrUpdateRecipe(c, newRecipeName, newIngredients) ==
    LET editingRecipeId == form[c].editingRecipeId
        inventoryItems == invSnap[c]
        IsValid(ing) ==
            /\ trim(ing.name) # ""
            /\ Less(Num(0), parseFloat(ing.quantity))
            /\ trim(ing.unit) # ""
        filteredIngredients == SelectSeq(newIngredients, IsValid)
        IsMissing(ing) ==
            ~\E i \in ItemIds :
                /\ inventoryItems[i].exists
                /\ toLowerCase(inventoryItems[i].name) = toLowerCase(ing.name)
                /\ inventoryItems[i].type = "raw_material"
        missingIngredients == SelectSeq(filteredIngredients, IsMissing)
        doc == [exists |-> TRUE, name |-> newRecipeName,
                ingredients |->
                    [k \in 1..Len(filteredIngredients) |->
                        Ingredient(filteredIngredients[k].name,
                                   parseFloat(filteredIngredients[k].quantity),
                                   filteredIngredients[k].unit)]]
    IN  /\ page[c] = "recipes"
        /\ op[c].pc = "idle"
        /\ editingRecipeId = 0 => nOps < MaxOps
        /\ nOps' = IF editingRecipeId = 0 THEN nOps + 1 ELSE nOps
        /\ IF trim(newRecipeName) = "" THEN
               op' = [op EXCEPT ![c] = Returned("recipe", "validation")]
           ELSE IF NoValidIngredient(filteredIngredients) THEN
               op' = [op EXCEPT ![c] = Returned("recipe", "noIngredients")]
           ELSE IF Len(missingIngredients) > 0 THEN
               op' = [op EXCEPT ![c] =
                         [Returned("recipe", "missing") EXCEPT
                             !.messages =
                                 [k \in 1..Len(missingIngredients) |->
                                     Shortage(missingIngredients[k].name, "notRegistered",
                                              Null, Null, "")]]]
           ELSE
               op' = [op EXCEPT ![c] = [Awaiting("recipe") EXCEPT
                                           !.docId = editingRecipeId, !.recipe = doc]]
        /\ UNCHANGED << inventory, recipes, orders, page, invSnap, ordSnap, recSnap, synced,
                        form, issued, conv >>

\* await updateDoc(recipeRef, {...}) or await addDoc(recipesRef, {...}) resolves;
\* the success modal shows and resetForm() runs
RecipeWriteResolves(c) ==
    LET id == op[c].docId
        new == Min(FreeRecipeIds)
    IN  /\ op[c].kind = "recipe" /\ op[c].pc = "write"
        /\ IF id # 0 THEN
               /\ recipes[id].exists
               /\ recipes' = [recipes EXCEPT ![id] = op[c].recipe]
               /\ recSnap' = [recSnap EXCEPT ![c][id] =
                                 IF @.exists THEN op[c].recipe ELSE @]
               /\ UNCHANGED issued
           ELSE
               /\ FreeRecipeIds # {}
               /\ recipes' = [recipes EXCEPT ![new] = op[c].recipe]
               /\ recSnap' = [recSnap EXCEPT ![c][new] =
                                 IF page[c] \in {"recipes", "sales_note"}
                                 THEN op[c].recipe ELSE @]
               /\ issued' = [issued EXCEPT !.recipes = @ \cup {new}]
        /\ op' = [op EXCEPT ![c] = Returned("recipe", "saved")]
        /\ ResetAfterSave(c)
        /\ UNCHANGED << inventory, orders, page, invSnap, ordSnap, synced, nOps, conv >>

\* it rejects: catch (e) (App.js 801-804)
RecipeWriteFails(c) ==
    /\ op[c].kind = "recipe" /\ op[c].pc = "write"
    /\ op' = [op EXCEPT ![c] = Returned("recipe", "error")]
    /\ UNCHANGED << inventory, recipes, orders, page, invSnap, ordSnap, recSnap, synced,
                    form, nOps, issued, conv >>

(***************************************************************************)
(* handleDeleteRecipe (App.js 815-825).                                    *)
(***************************************************************************)
HandleDeleteRecipe(c, id) ==
    /\ page[c] = "recipes"
    /\ op[c].pc = "idle"
    /\ recSnap[c][id].exists
    /\ nOps < MaxOps
    /\ nOps' = nOps + 1
    /\ \E confirm \in BOOLEAN :
           op' = [op EXCEPT ![c] =
                     IF Declines(confirm) THEN Returned("deleteRecipe", "declined")
                     ELSE [Awaiting("deleteRecipe") EXCEPT !.docId = id, !.confirmed = confirm]]
    /\ UNCHANGED << inventory, recipes, orders, page, invSnap, ordSnap, recSnap, synced,
                    form, issued, conv >>

\* await deleteDoc(...) resolves, whether or not the document was still there
DeleteRecipeResolves(c) ==
    /\ op[c].kind = "deleteRecipe" /\ op[c].pc = "write"
    /\ recipes' = [recipes EXCEPT ![op[c].docId] = NoRecipe]
    /\ recSnap' = [recSnap EXCEPT ![c][op[c].docId] = NoRecipe]
    /\ op' = [op EXCEPT ![c] = Returned("deleteRecipe", "saved")]
    /\ UNCHANGED << inventory, orders, page, invSnap, ordSnap, synced, form, nOps, issued,
                    conv >>

\* it rejects: catch (e) (App.js 820-823)
DeleteRecipeFails(c) ==
    /\ op[c].kind = "deleteRecipe" /\ op[c].pc = "write"
    /\ op' = [op EXCEPT ![c] = Returned("deleteRecipe", "error")]
    /\ UNCHANGED << inventory, recipes, orders, page, invSnap, ordSnap, recSnap, synced,
                    form, nOps, issued, conv >>


(***************************************************************************)
(* The system.                                                             *)
(***************************************************************************)
Next ==
    \/ \E c \in Clients, p \in Pages : Navigate(c, p)
    \/ \E c \in Clients : OnInventorySnapshot(c)
    \/ \E c \in Clients : OnOrdersSnapshot(c)
    \/ \E c \in Clients : OnRecipesSnapshot(c)
    \/ \E c \in Clients, r \in RecipeIds, q \in ProductionQuantities :
           HandleConfirmProduction(c, r, q)
    \/ \E c \in Clients : DeductIngredient(c)
    \/ \E c \in Clients : UpdateFinishedProduct(c)
    \/ \E c \in Clients : AddFinishedProduct(c)
    \/ \E c \in Clients : ProductionWriteFails(c)
    \/ \E c \in Clients, o \in OrderIds : HandleChangeOrderStatus(c, o)
    \/ \E c \in Clients : DeductFinishedProduct(c)
    \/ \E c \in Clients : UpdateOrderStatus(c)
    \/ \E c \in Clients : OrderWriteFails(c)
    \/ \E c \in Clients, i \in ItemIds, v \in StockInputs : HandleStockChange(c, i, v)
    \/ \E c \in Clients : StockWriteResolves(c)
    \/ \E c \in Clients : StockWriteFails(c)
    \/ \E c \in Clients, i \in ItemIds : HandleEditItem(c, i)
    \/ \E c \in Clients : \E f \in ItemFormInputs(c) :
           HandleAddOrUpdateItem(c, f[1], f[2], f[3], f[4])
    \/ \E c \in Clients : ItemWriteResolves(c)
    \/ \E c \in Clients : ItemWriteFails(c)
    \/ \E c \in Clients, i \in ItemIds : HandleDeleteItem(c, i)
    \/ \E c \in Clients : DeleteItemResolves(c)
    \/ \E c \in Clients : DeleteItemFails(c)
    \/ \E c \in Clients, o \in OrderIds : HandleEditOrder(c, o)
    \/ \E c \in Clients : \E f \in OrderFormInputs(c) :
           HandleAddOrUpdateOrder(c, f[1], f[2], f[3], f[4], f[5])
    \/ \E c \in Clients : OrderFormWriteResolves(c)
    \/ \E c \in Clients : OrderFormWriteFails(c)
    \/ \E c \in Clients, o \in OrderIds : HandleDeleteOrder(c, o)
    \/ \E c \in Clients : DeleteOrderResolves(c)
    \/ \E c \in Clients : DeleteOrderFails(c)
    \/ \E c \in Clients, r \in RecipeIds : HandleEditRecipe(c, r)
    \/ \E c \in Clients : \E f \in RecipeFormInputs(c) :
           HandleAddOrUpdateRecipe(c, f[1], f[2])
    \/ \E c \in Clients : RecipeWriteResolves(c)
    \/ \E c \in Clients : RecipeWriteFails(c)
    \/ \E c \in Clients, r \in RecipeIds : HandleDeleteRecipe(c, r)
    \/ \E c \in Clients : DeleteRecipeResolves(c)
    \/ \E c \in Clients : DeleteRecipeFails(c)
    \/ \E c \in Clients : Cancelar(c)

Spec == Init /\ [][Next]_vars


(***************************************************************************)
(* convertUnits on its own, with arguments drawn from the sets below.      *)
(* handleConvert (App.js 1536) passes two options of its selects, which    *)
(* are ConvUnits; handleConfirmProduction (866) passes units of the item   *)
(* and recipe forms, which are among them.  The function is also called    *)
(* here with symbols that no caller passes and that no select offers: one  *)
(* that no table has, in both cases, the English 'unit', and 'KG'.         *)
(***************************************************************************)
ConvValues == {Num(0), Num(1), Num(5), Num(100), Rat(1, 2)}

\* converterUnitOptions (App.js 1516)
ConvUnits == {"g", "kg", "ml", "lt", "cc", "unidad"}

\* unit symbols outside the selects
OtherSymbols == {"unit", "KG", "oz", "OZ"}

ConvInit ==
    /\ conv \in {[value |-> v, fromUnit |-> f, toUnit |-> t, result |-> Null, pc |-> "call"] :
                    v \in ConvValues, f \in ConvUnits \cup OtherSymbols,
                    t \in ConvUnits \cup OtherSymbols}
    /\ inventory = SeedInventory
    /\ recipes = SeedRecipes
    /\ orders = SeedOrders
    /\ page = [c \in Clients |-> "converter"]
    /\ invSnap = [c \in Clients |-> EmptyItems]
    /\ ordSnap = [c \in Clients |-> EmptyOrders]
    /\ recSnap = [c \in Clients |-> EmptyRecipes]
    /\ synced = [c \in Clients |-> FALSE]
    /\ op = [c \in Clients |-> IdleOp]
    /\ form = [c \in Clients |-> EmptyForm]
    /\ nOps = 0
    /\ issued = [items   |-> {i \in ItemIds : SeedInventory[i].exists},
                 orders  |-> {o \in OrderIds : SeedOrders[o].exists},
                 recipes |-> {r \in RecipeIds : SeedRecipes[r].exists}]

\* const converted = convertUnits(numericValue, fromUnit, toUnit)
CallConvertUnits ==
    /\ conv.pc = "call"
    /\ conv' = [conv EXCEPT !.result = convertUnits(conv.value, conv.fromUnit, conv.toUnit),
                            !.pc = "done"]
    /\ UNCHANGED << inventory, recipes, orders, page, invSnap, ordSnap, synced, op, nOps, recSnap, issued, form >>

ConvNext == CallConvertUnits

ConvSpec == ConvInit /\ [][ConvNext]_vars


(***************************************************************************)
(* Properties.                                                             *)
(***************************************************************************)
InFlight(c) == op[c].pc # "idle"

\* tab c moves on in its try block by a write that resolved
Commits(c) == InFlight(c) /\ op'[c] # op[c] /\ op'[c].result # "error"

\* the production of tab c has applied some of its writes and not the others
PartlyApplied(c) ==
    /\ op[c].kind = "production"
    /\ InFlight(c)
    /\ op[c].idx > 1

\* C1: a production commit is all-or-nothing: no reachable state has only some
\* of the writes of a confirmed production (its ingredient deductions and its
\* finished-good increment) applied.
C1_AllOrNothing == \A c \in Clients : ~PartlyApplied(c)

\* C2: every inventory item has stockCount >= 0 in every reachable state, after
\* any interleaving of productions, order completions, reopenings and stock edits.
C2_StockNonNegative ==
    \A i \in ItemIds : inventory[i].exists => LessEq(Num(0), inventory[i].stock)

\* a production and an order completion have both committed, and an item is at 0
C2_Witness ==
    \E c, d \in Clients :
        /\ op[c].kind = "production" /\ op[c].result = "success"
        /\ op[d].kind = "complete" /\ op[d].result = "success"
        /\ \E i \in ItemIds : inventory[i].exists /\ inventory[i].stock = Num(0)

\* what entry k of the plan of o takes from its item, in the item's unit
Required(o, k) ==
    LET item == o.items[o.deductions[k].itemId]
    IN  Mul(Sub(item.stock, o.deductions[k].newStock), Num(item.unit_value))

Available(o, k) ==
    LET item == o.items[o.deductions[k].itemId]
    IN  Mul(item.stock, Num(item.unit_value))

\* C3: of two production confirmations planned against the same snapshot of an
\* ingredient that has stock for only one of them, the two never both succeed.
C3_ExactlyOneSucceeds ==
    \A c, d \in Clients :
        (/\ c # d
         /\ op[c].kind = "production" /\ op[c].result = "success"
         /\ op[d].kind = "production" /\ op[d].result = "success")
        => \A k \in DOMAIN op[c].deductions, l \in DOMAIN op[d].deductions :
               (/\ op[c].deductions[k].itemId = op[d].deductions[l].itemId
                /\ op[c].items[op[c].deductions[k].itemId]
                       = op[d].items[op[d].deductions[l].itemId])
               => LessEq(Add(Required(op[c], k), Required(op[d], l)),
                         Available(op[c], k))

\* the items the plan of a production read: its ingredients and its finished good
ReadItems(o) ==
    {o.deductions[k].itemId : k \in DOMAIN o.deductions}
        \cup (IF o.fgId = 0 THEN {} ELSE {o.fgId})

\* the items the commit of a production has written so far
WrittenItems(o) ==
    {o.deductions[k].itemId : k \in {j \in DOMAIN o.deductions : j < o.idx}}

\* C4: a production commit applies a write only while every item its plan read
\* is as the plan read it; it never overwrites a newer value with a value
\* computed from the stale snapshot.
C4_NoStaleCommit ==
    [][\A c \in Clients :
         (op[c].kind = "production" /\ Commits(c))
         => \A i \in ReadItems(op[c]) \ WrittenItems(op[c]) :
                inventory[i] = op[c].items[i]]_vars

\* C5: a production whose planning over the tab's snapshot records a shortage
\* (missing ingredient, unit mismatch, insufficient stock) returns the shortage
\* report and writes nothing.
C5_ShortageWritesNothing ==
    [][\A c \in Clients, r \in RecipeIds, q \in ProductionQuantities :
         (/\ HandleConfirmProduction(c, r, q)
          /\ q > 0
          /\ Plan(invSnap[c], recSnap[c][r], q).shortageMessages # << >>)
         => /\ op'[c].result = "shortage"
            /\ ~InFlight(c)'
            /\ inventory' = inventory
            /\ orders' = orders]_vars

\* a production has returned the shortage report
C5_Witness ==
    \E c \in Clients : op[c].kind = "production" /\ op[c].result = "shortage"


RECURSIVE RequiredFrom(_, _, _)
\* what the entries k.. of the plan of o take from item i together
RequiredFrom(o, i, k) ==
    IF k > Len(o.deductions) THEN Num(0)
    ELSE Add(IF o.deductions[k].itemId = i THEN Required(o, k) ELSE Num(0),
             RequiredFrom(o, i, k + 1))

\* C6: a commit leaves each item short of what the plan read by the sum, over all
\* recipe ingredients matched to that item, of quantity x quantityToProduce in
\* the item's unit, also when two ingredients resolve to the same item: the last
\* deduction written to an item leaves it at the stock read minus that sum.
C6_DeductsSum ==
    [][\A c \in Clients :
         (op[c].kind = "production" /\ op[c].pc = "deduct" /\ Commits(c))
         => LET o == op[c]
                i == o.deductions[o.idx].itemId
            IN  (\A j \in DOMAIN o.deductions : j > o.idx => o.deductions[j].itemId # i)
                => Mul(Sub(o.items[i].stock, inventory'[i].stock),
                       Num(o.items[i].unit_value))
                     = RequiredFrom(o, i, 1)]_vars

\* the finished goods of the ledger whose name is that of the recipe, ignoring case
FinishedGoods(name) ==
    {i \in ItemIds : /\ inventory[i].exists
                     /\ inventory[i].type = "finished_good"
                     /\ toLowerCase(inventory[i].name) = toLowerCase(name)}

\* C7: a successful production of quantityToProduce units upserts the finished
\* good: a FinishedGood of the recipe's name (ignoring case), if there is one,
\* gains exactly quantityToProduce; otherwise exactly one FinishedGood is created
\* with unit_value 1, the count unit and stock quantityToProduce.
C7_Upsert ==
    [][\A c \in Clients :
         (op[c].kind = "production" /\ op[c].pc = "finished" /\ Commits(c))
         => IF FinishedGoods(op[c].recipeName) # {}
            THEN \E i \in FinishedGoods(op[c].recipeName) :
                    /\ inventory'[i].stock = Add(inventory[i].stock, Num(op[c].qty))
                    /\ \A j \in ItemIds \ {i} : inventory'[j] = inventory[j]
            ELSE \E i \in ItemIds :
                    /\ ~inventory[i].exists
                    /\ inventory'[i] = Item(op[c].recipeName, "finished_good", 1,
                                            "unidad", Num(op[c].qty))
                    /\ \A j \in ItemIds \ {i} : inventory'[j] = inventory[j]]_vars

\* C8: completing an order takes order.quantity from the finished good and sets
\* the status to Completado in one atomic step: no reachable state has the stock
\* write of a completion applied and its status write not applied.
C8_CompletionAtomic ==
    \A c \in Clients : ~(op[c].kind = "complete" /\ op[c].pc = "status")

\* the product name a completion looks up: the linked recipe's, else the description
ResolvedName(c, order) ==
    IF order.selectedRecipeId # 0 /\ recSnap[c][order.selectedRecipeId].exists
    THEN recSnap[c][order.selectedRecipeId].name
    ELSE order.productDescription

\* the finished goods of tab c's snapshot that carry the name, ignoring case
SnapshotFinishedGoods(c, name) ==
    {i \in ItemIds : /\ invSnap[c][i].exists
                     /\ invSnap[c][i].type = "finished_good"
                     /\ toLowerCase(invSnap[c][i].name) = toLowerCase(name)}

\* C9: completing a pending order whose finished good has, in the tab's snapshot,
\* less stock than order.quantity returns the insufficient-stock shortage and
\* changes nothing: no item is written and the order stays Pendiente.
C9_InsufficientChangesNothing ==
    [][\A c \in Clients, o \in OrderIds :
         (/\ HandleChangeOrderStatus(c, o)
          /\ ordSnap[c][o].status = "Pendiente"
          /\ SnapshotFinishedGoods(c, ResolvedName(c, ordSnap[c][o])) # {}
          /\ LET i == Min(SnapshotFinishedGoods(c, ResolvedName(c, ordSnap[c][o])))
             IN  Less(invSnap[c][i].stock, Num(ordSnap[c][o].quantity)))
         => /\ op'[c].result = "insufficient"
            /\ ~InFlight(c)'
            /\ inventory' = inventory
            /\ orders' = orders]_vars

\* a completion has returned the insufficient-stock shortage
C9_Witness ==
    \E c \in Clients : op[c].kind = "complete" /\ op[c].result = "insufficient"

\* C10: completing a pending order whose product name matches no FinishedGood of
\* the tab's snapshot (ignoring case; a RawMaterial of that name does not count)
\* fails as not found and changes nothing.
C10_NotFoundChangesNothing ==
    [][\A c \in Clients, o \in OrderIds :
         (/\ HandleChangeOrderStatus(c, o)
          /\ ordSnap[c][o].status = "Pendiente"
          /\ SnapshotFinishedGoods(c, ResolvedName(c, ordSnap[c][o])) = {})
         => /\ op'[c].result = "notFound"
            /\ ~InFlight(c)'
            /\ inventory' = inventory
            /\ orders' = orders]_vars

\* a completion has failed as not found for a name that a raw material carries,
\* in a tab whose snapshot holds a finished good
C10_Witness ==
    \E c \in Clients :
        /\ op[c].kind = "complete" /\ op[c].result = "notFound"
        /\ \E i \in ItemIds :
               /\ inventory[i].exists /\ inventory[i].type = "raw_material"
               /\ toLowerCase(inventory[i].name) = toLowerCase(op[c].recipeName)
        /\ \E i \in ItemIds : invSnap[c][i].exists

\* C11: reopening a completed order sets its status to Pendiente and has no stock
\* effect: neither the call nor its status write changes any inventory item, and
\* no other order changes.
C11_ReopenNoStockEffect ==
    [][\A c \in Clients :
         /\ \A o \in OrderIds :
                (HandleChangeOrderStatus(c, o) /\ ordSnap[c][o].status = "Completado")
                => inventory' = inventory /\ orders' = orders
         /\ (op[c].kind = "reopen" /\ Commits(c))
            => /\ inventory' = inventory
               /\ orders'[op[c].orderId].status = "Pendiente"
               /\ \A o \in OrderIds \ {op[c].orderId} : orders'[o] = orders[o]]_vars

\* an order was completed (its finished good went from 2 to 1) and then reopened:
\* it is Pendiente again and the stock is still 1
C11_Witness ==
    \E c \in Clients :
        /\ op[c].kind = "reopen" /\ op[c].result = "success"
        /\ orders[op[c].orderId].status = "Pendiente"
        /\ \E i \in ItemIds :
               /\ inventory[i].exists /\ inventory[i].type = "finished_good"
               /\ toLowerCase(inventory[i].name) = toLowerCase(op[c].recipeName)
               /\ inventory[i].stock = Num(2 - op[c].qty)

\* C12: the status of an existing order changes only through the fulfillment
\* operations (the status write of a completion or of a reopening); no other
\* operation on the order, in particular an edit of its fields, changes it.
C12_StatusOnlyByFulfillment ==
    [][\A o \in OrderIds :
         (orders[o].exists /\ orders'[o].exists /\ orders'[o].status # orders[o].status)
         => \E c \in Clients :
                /\ op[c].kind \in {"complete", "reopen"}
                /\ op[c].pc = "status"
                /\ op[c].orderId = o
                /\ Commits(c)]_vars

\* C13: no operation reports success after only part of its writes: the step that
\* shows the success message of a production is its finished-good write, taken
\* after every ingredient deduction of the plan was written; the step that shows
\* the success message of a completion is its status write, taken after its stock
\* write.
C13_SuccessMeansAllWritten ==
    [][\A c \in Clients :
         (op'[c].result = "success" /\ op[c].result # "success")
         => \/ /\ op[c].kind = "production"
               /\ op[c].idx = Len(op[c].deductions) + 1
               /\ IF op[c].fgId # 0
                  THEN inventory'[op[c].fgId].stock = Add(op[c].fgStock, Num(op[c].qty))
                  ELSE \E i \in ItemIds :
                          /\ ~inventory[i].exists
                          /\ inventory'[i] = Item(op[c].recipeName, "finished_good", 1,
                                                  "unidad", Num(op[c].qty))
            \/ /\ op[c].kind = "complete"
               /\ op[c].pc = "status"
               /\ orders'[op[c].orderId].status = "Completado"
            \/ /\ op[c].kind = "reopen"
               /\ orders'[op[c].orderId].status = "Pendiente"]_vars

\* a production with two deductions has shown its success message
C13_Witness ==
    \E c \in Clients :
        /\ op[c].kind = "production" /\ op[c].result = "success"
        /\ Len(op[c].deductions) = 2

\* the category tables of the unit converter, on symbols as the converter
\* standardizes them (lower case): Mass{g, kg}, Volume{ml, lt, cc}, Count{unit}
TableCategory(u) ==
    CASE toLowerCase(u) \in {"g", "kg"}        -> "Mass"
      [] toLowerCase(u) \in {"ml", "lt", "cc"} -> "Volume"
      [] toLowerCase(u) = "unit"               -> "Count"
      [] OTHER                                 -> "none"

TableFactor(u) == IF toLowerCase(u) \in {"kg", "lt"} THEN 1000 ELSE 1

\* C14: convert(v, u, u) returns v unchanged for every unit symbol u, also for a
\* symbol that is in no category table.
C14_SameUnitIdentity ==
    (conv.pc = "done" /\ conv.fromUnit = conv.toUnit) => conv.result = conv.value

\* 5 was converted from a unit that no table has to that same unit, and came back
C14_Witness ==
    /\ conv.pc = "done"
    /\ conv.fromUnit = "oz" /\ conv.toUnit = "oz"
    /\ conv.value = Num(5) /\ conv.result = Num(5)

\* C15: for two different unit symbols of the same category, convert returns
\* value x factor(fromUnit) / factor(toUnit) with the factors g 1, kg 1000, ml 1,
\* lt 1000, cc 1, unit 1; convert(100, g, kg) = 0.1 and convert(1, lt, ml) = 1000.
C15_SameCategoryFactor ==
    /\ (/\ conv.pc = "done"
        /\ conv.fromUnit # conv.toUnit
        /\ TableCategory(conv.fromUnit) # "none"
        /\ TableCategory(conv.fromUnit) = TableCategory(conv.toUnit))
       => conv.result = Rat(conv.value.n * TableFactor(conv.fromUnit),
                            conv.value.d * TableFactor(conv.toUnit))
    /\ (conv.pc = "done" /\ conv.value = Num(100) /\ conv.fromUnit = "g" /\ conv.toUnit = "kg")
       => conv.result = Rat(1, 10)
    /\ (conv.pc = "done" /\ conv.value = Num(1) /\ conv.fromUnit = "lt" /\ conv.toUnit = "ml")
       => conv.result = Num(1000)

\* 100 g were converted to kg
C15_Witness ==
    /\ conv.pc = "done"
    /\ conv.value = Num(100) /\ conv.fromUnit = "g" /\ conv.toUnit = "kg"
    /\ conv.result = Rat(1, 10)

\* C16: for two different unit symbols (different as the converter standardizes
\* them), convert fails and returns no number whenever either symbol is in no
\* category or the two are in different categories.
C16_IncompatibleFails ==
    (/\ conv.pc = "done"
     /\ toLowerCase(conv.fromUnit) # toLowerCase(conv.toUnit)
     /\ \/ TableCategory(conv.fromUnit) = "none"
        \/ TableCategory(conv.toUnit) = "none"
        \/ TableCategory(conv.fromUnit) # TableCategory(conv.toUnit))
    => conv.result = Null

\* 5 g were to be converted to ml, and no number came back
C16_Witness ==
    /\ conv.pc = "done"
    /\ conv.value = Num(5) /\ conv.fromUnit = "g" /\ conv.toUnit = "ml"
    /\ conv.result = Null

\* C17: a production with quantityToProduce <= 0 is refused as a validation
\* error before any planning (also when the plan would show a shortage) and
\* writes nothing.
C17_NonPositiveQuantityRefused ==
    [][\A c \in Clients, r \in RecipeIds, q \in ProductionQuantities :
         (HandleConfirmProduction(c, r, q) /\ q <= 0)
         => /\ op'[c].result = "validation"
            /\ ~InFlight(c)'
            /\ inventory' = inventory
            /\ orders' = orders]_vars

\* a production has been refused for its quantity
C17_Witness ==
    \E c \in Clients : op[c].kind = "production" /\ op[c].result = "validation"

Conflict(c) ==
    \E i \in ReadItems(op[c]) \ WrittenItems(op[c]) : inventory[i] # op[c].items[i]

\* C19: a production commit that meets a concurrent modification is not applied:
\* the production plans again over a fresh snapshot (a retry) or ends with a
\* failure the user sees; so the next step of a production in conflict writes
\* nothing to the ledger and leaves it either failed or running on a new plan.
C19_ConflictRetriedOrFails ==
    [][\A c \in Clients :
         (/\ op[c].kind = "production" /\ InFlight(c)
          /\ Conflict(c)
          /\ op'[c] # op[c])
         => /\ inventory' = inventory
            /\ \/ op'[c].result = "error"
               \/ /\ op'[c].result = "running"
                  /\ op'[c].items = inventory]_vars

\* C20: in every reachable state no two inventory items of the same kind have
\* names that are equal ignoring case.
C20_UniqueNames ==
    \A i, j \in ItemIds :
        (/\ i # j
         /\ inventory[i].exists /\ inventory[j].exists
         /\ inventory[i].type = inventory[j].type)
        => toLowerCase(inventory[i].name) # toLowerCase(inventory[j].name)

\* C21: declining the confirmation of a planned production, of an order
\* completion or of a reopening discards the plan: the handler returns, and
\* neither it nor any later step of it writes an inventory item or an order.
C21_DeclineWritesNothing ==
    [][\A c \in Clients :
         /\ (/\ ~InFlight(c) /\ op'[c] # op[c]
             /\ op'[c].kind \in {"production", "complete", "reopen"}
             /\ ~op'[c].confirmed)
            => /\ ~InFlight(c)'
               /\ inventory' = inventory
               /\ orders' = orders
         /\ (/\ InFlight(c) /\ op'[c] # op[c]
             /\ op[c].kind \in {"production", "complete", "reopen"})
            => op[c].confirmed]_vars

\* a completion was declined in the dialog; the ledger is as it was
C21_Witness ==
    \E c \in Clients :
        /\ op[c].kind = "complete" /\ op[c].result = "declined"
        /\ inventory = SeedInventory /\ orders = SeedOrders

\* the raw materials of a snapshot that carry the name of an ingredient, ignoring case
RawMaterials(items, name) ==
    {i \in ItemIds : /\ items[i].exists
                     /\ items[i].type = "raw_material"
                     /\ toLowerCase(items[i].name) = toLowerCase(name)}

\* what an ingredient asks of the item it resolves to, in the unit of the item
RequiredBase(items, ing, q) ==
    convertUnits(Mul(ing.quantity, Num(q)), ing.unit,
                 items[Min(RawMaterials(items, ing.name))].unit_type)

\* what that item holds, in its unit
AvailableBase(items, ing) ==
    LET item == items[Min(RawMaterials(items, ing.name))]
    IN  Mul(item.stock, Num(item.unit_value))

\* what is wrong with one ingredient, taken by itself
Problem(items, ing, q) ==
    IF RawMaterials(items, ing.name) = {} THEN "notFound"
    ELSE IF RequiredBase(items, ing, q) = Null THEN "conversion"
    ELSE IF Less(AvailableBase(items, ing), RequiredBase(items, ing, q)) THEN "insufficient"
    ELSE "none"

\* the ingredients that have a problem, in the order of the recipe
ExpectedReport(items, recipe, q) ==
    LET HasProblem(ing) == Problem(items, ing, q) # "none"
        bad == SelectSeq(recipe.ingredients, HasProblem)
    IN  [k \in 1..Len(bad) |-> [name |-> bad[k].name, kind |-> Problem(items, bad[k], q)]]

\* the ingredients and kinds a shortage report names
Reported(messages) ==
    [k \in 1..Len(messages) |-> [name |-> messages[k].name, kind |-> messages[k].kind]]

\* C22: planning evaluates every ingredient and never stops at the first
\* problem: the shortage report has one entry, in order, for each ingredient that
\* is missing, fails unit conversion or is insufficient, whatever its position
\* and whatever went wrong with earlier ingredients.
C22_ReportIsComplete ==
    [][\A c \in Clients, r \in RecipeIds, q \in ProductionQuantities :
         (HandleConfirmProduction(c, r, q) /\ q > 0)
         => Reported(op'[c].messages) = ExpectedReport(invSnap[c], recSnap[c][r], q)]_vars

\* a report with a missing ingredient first and then a conversion failure, an
\* insufficient stock and another missing ingredient
C22_Witness ==
    \E c \in Clients :
        /\ op[c].kind = "production" /\ op[c].result = "shortage"
        /\ Len(op[c].messages) = 4
        /\ op[c].messages[1].kind = "notFound"
        /\ op[c].messages[2].kind = "conversion"
        /\ op[c].messages[3].kind = "insufficient"
        /\ op[c].messages[4].kind = "notFound"

\* C23: an ingredient that resolves to a raw material and converts to its unit
\* gets an insufficient-stock entry exactly when requiredBase > availableBase
\* (equal is not a shortage), and the entry cites requiredBase and availableBase
\* in the unit of the item.
C23_InsufficientExactly ==
    [][\A c \in Clients, r \in RecipeIds, q \in ProductionQuantities :
         (HandleConfirmProduction(c, r, q) /\ q > 0)
         => \A k \in DOMAIN recSnap[c][r].ingredients :
                LET ing == recSnap[c][r].ingredients[k]
                    items == invSnap[c]
                    entry == [name |-> ing.name, kind |-> "insufficient",
                              required |-> RequiredBase(items, ing, q),
                              available |-> AvailableBase(items, ing),
                              unit |-> items[Min(RawMaterials(items, ing.name))].unit_type]
                IN  (RawMaterials(items, ing.name) # {} /\ RequiredBase(items, ing, q) # Null)
                    => ((\E m \in DOMAIN op'[c].messages :
                            /\ op'[c].messages[m].name = ing.name
                            /\ op'[c].messages[m].kind = "insufficient")
                          <=> RequiredBase(items, ing, q).n * AvailableBase(items, ing).d
                                > AvailableBase(items, ing).n * RequiredBase(items, ing, q).d)
                       /\ \A m \in DOMAIN op'[c].messages :
                             (/\ op'[c].messages[m].name = ing.name
                              /\ op'[c].messages[m].kind = "insufficient")
                             => op'[c].messages[m] = entry]_vars

\* 100 g per unit x 2 units against 1 x 150 g: required 200 g, available 150 g
C23_Witness ==
    \E c \in Clients :
        /\ op[c].kind = "production" /\ op[c].result = "shortage"
        /\ op[c].messages = << [name |-> "flour", kind |-> "insufficient",
                                required |-> Num(200), available |-> Num(150),
                                unit |-> "g"] >>

\* C24: an ingredient is matched only against a raw material whose name equals
\* the ingredient's ignoring case; when the snapshot has none (a finished good of
\* that name does not count) the ingredient is reported as missing and the
\* production does not proceed; every deduction of a plan is on such a match.
C24_MatchRawMaterialOnly ==
    [][\A c \in Clients, r \in RecipeIds, q \in ProductionQuantities :
         (HandleConfirmProduction(c, r, q) /\ q > 0)
         => /\ \A k \in DOMAIN recSnap[c][r].ingredients :
                   RawMaterials(invSnap[c], recSnap[c][r].ingredients[k].name) = {}
                   => /\ \E m \in DOMAIN op'[c].messages :
                             /\ op'[c].messages[m].name = recSnap[c][r].ingredients[k].name
                             /\ op'[c].messages[m].kind = "notFound"
                      /\ op'[c].result = "shortage"
                      /\ ~InFlight(c)'
            /\ \A d \in DOMAIN op'[c].deductions :
                   \E k \in DOMAIN recSnap[c][r].ingredients :
                       op'[c].deductions[d].itemId
                           \in RawMaterials(invSnap[c], recSnap[c][r].ingredients[k].name)]_vars

\* the ingredient 'bread' was reported missing by a tab whose snapshot holds the
\* finished good Bread
C24_Witness ==
    \E c \in Clients :
        /\ op[c].kind = "production" /\ op[c].result = "shortage"
        /\ \E m \in DOMAIN op[c].messages :
               op[c].messages[m].name = "bread" /\ op[c].messages[m].kind = "notFound"
        /\ \E i \in ItemIds :
               /\ invSnap[c][i].exists /\ invSnap[c][i].type = "finished_good"
               /\ toLowerCase(invSnap[c][i].name) = "bread"

\* C25: completing an order that has a recipe reference looks the finished good
\* up under the name of the referenced recipe and never under the order's
\* productDescription.
C25_UsesRecipeName ==
    [][\A c \in Clients, o \in OrderIds :
         (/\ HandleChangeOrderStatus(c, o)
          /\ ordSnap[c][o].status = "Pendiente"
          /\ ordSnap[c][o].selectedRecipeId # 0
          /\ op'[c].result \in {"notFound", "insufficient", "running"})
         => /\ recipes[ordSnap[c][o].selectedRecipeId].exists
            /\ op'[c].recipeName = recipes[ordSnap[c][o].selectedRecipeId].name]_vars

\* C26: a production proceeds only if, for every inventory item, the requirement
\* summed over all recipe ingredients that resolve to the item is at most what
\* the plan read as available, also when a raw material is listed twice.
C26_SummedRequirementCovered ==
    \A c \in Clients :
        (op[c].kind = "production" /\ op[c].result \in {"running", "success"})
        => \A k \in DOMAIN op[c].deductions :
               LessEq(RequiredFrom(op[c], op[c].deductions[k].itemId, 1),
                      Available(op[c], k))

\* C27: when the same pending order is completed twice, once in each tab, the
\* stock of its finished good goes down by the order's quantity at most once.
C27_SecondCompletionHarmless ==
    \A c, d \in Clients :
        (/\ c # d
         /\ op[c].kind = "complete" /\ op[c].result = "success"
         /\ op[d].kind = "complete" /\ op[d].result = "success"
         /\ op[c].orderId = op[d].orderId
         /\ op[c].fgId = op[d].fgId)
        => LessEq(Sub(SeedInventory[op[c].fgId].stock, Num(op[c].qty)),
                  inventory[op[c].fgId].stock)

\* C28: without manual edits of the inventory, the stock of a finished good is
\* its initial stock plus what productions added minus what completed orders
\* took: after one production and one completion on the same finished good the
\* stock is the initial stock plus the one quantity minus the other.
C28_StockIsConserved ==
    \A c, d \in Clients :
        (/\ c # d
         /\ nOps = 2    \* the two calls below are all that the users did
         /\ op[c].kind = "production" /\ op[c].result = "success" /\ op[c].fgId # 0
         /\ op[d].kind = "complete" /\ op[d].result = "success"
         /\ op[d].fgId = op[c].fgId)
        => inventory[op[c].fgId].stock
               = Sub(Add(SeedInventory[op[c].fgId].stock, Num(op[c].qty)), Num(op[d].qty))

\* C29: no step changes the kind of an inventory item: an item that exists before
\* and after a step, in particular one saved by the item form in edit mode, is a
\* raw material after it if and only if it was one before.
C29_KindIsKept ==
    [][\A i \in ItemIds :
         (inventory[i].exists /\ inventory'[i].exists)
         => inventory'[i].type = inventory[i].type]_vars

\* the inventory after the step differs from the one before in the stock of item
\* i and in nothing else
OnlyStockOf(i) ==
    /\ inventory[i].exists
    /\ inventory' = [inventory EXCEPT ![i].stock = inventory'[i].stock]

\* C30: every write of a confirmed production changes either the stock, and only
\* the stock, of one raw material that the plan matched to an ingredient, or the
\* stock, and only the stock, of the recipe's finished good, or creates that
\* finished good; no other item, no recipe and no order changes.
C30_ProductionFrame ==
    [][\A c \in Clients :
         (op[c].kind = "production" /\ Commits(c))
         => /\ recipes' = recipes
            /\ orders' = orders
            /\ IF op[c].pc = "deduct" THEN
                   LET i == op[c].deductions[op[c].idx].itemId
                   IN  /\ op[c].items[i].type = "raw_material"
                       /\ OnlyStockOf(i)
               ELSE IF op[c].fgId # 0 THEN
                   /\ op[c].items[op[c].fgId].type = "finished_good"
                   /\ toLowerCase(op[c].items[op[c].fgId].name) = toLowerCase(op[c].recipeName)
                   /\ OnlyStockOf(op[c].fgId)
               ELSE
                   \E i \in ItemIds :
                       /\ ~inventory[i].exists
                       /\ inventory'[i].type = "finished_good"
                       /\ inventory'[i].name = op[c].recipeName
                       /\ inventory' = [inventory EXCEPT ![i] = inventory'[i]]]_vars

\* a production has written its one deduction and its finished good's stock after
\* the raw material had been renamed by the other tab
C30_Witness ==
    \E c \in Clients :
        /\ op[c].kind = "production" /\ op[c].result = "success"
        /\ Len(op[c].deductions) = 1
        /\ op[c].fgId # 0
        /\ LET i == op[c].deductions[1].itemId
           IN  /\ inventory[i].exists
               /\ inventory[i].name # op[c].items[i].name
               /\ inventory[i].stock = op[c].deductions[1].newStock

====
